---- MODULE Spec2Model ----
(***************************************************************************)
(* Model of src/src/double_linked_list.rs: a doubly linked list whose      *)
(* nodes are shared reference-counted cells (Option<Rc<RefCell<Node<T>>>>). *)
(* The heap is a function from node identities to node records; a link is  *)
(* a node identity or NULL (None).  Every link, and every local handle, is *)
(* a strong reference.                                                     *)
(***************************************************************************)
EXTENDS Integers, Sequences, FiniteSets, TLC

\* ---- bounds ----
MaxLen == 4
MaxVal == 2
MaxIndex == 5
MaxIters == 2
MaxHandles == 1
MaxLenH == 2

Values == 1..MaxVal
NodeIds == 1..(MaxLen + 1)
Indices == 0..MaxIndex

\* None of a LinkNode
NULL == 0

\* head, tail, length : the fields of the list;  nodes : the heap of cells;
\* panicked : an expect or unwrap has failed;  last : the latest call;
\* built : the values of the calls so far while they were all add or all append;
\* iters : the NodeIter values the caller keeps;  handles : the nodes the
\* caller keeps a yielded Rc of.
VARIABLES head, tail, length, nodes, panicked, last, built, iters, handles

vars == <<head, tail, length, nodes, panicked, last, built, iters, handles>>

\* the strong references the caller keeps to node n
CallerRefs(n) ==
    (IF n \in handles THEN 1 ELSE 0)
    + Cardinality({i \in DOMAIN iters : iters[i].next = n})

\* ---- the heap ----

\* Node::new : a fresh cell with both links None
NodeNew(value) == [value |-> value, prev |-> NULL, next |-> NULL]

\* Rc::new : the identity of the fresh cell (the lowest free one)
Alloc(ns) == CHOOSE i \in NodeIds \ DOMAIN ns : \A j \in NodeIds \ DOMAIN ns : i <= j

\* dropping the last strong reference frees the cell
Free(ns, n) == [m \in DOMAIN ns \ {n} |-> ns[m]]

\* the strong references the list structure holds to node n
ListRefs(L, n) ==
    (IF L.head = n THEN 1 ELSE 0) + (IF L.tail = n THEN 1 ELSE 0)
    + Cardinality({m \in DOMAIN L.nodes : L.nodes[m].prev = n})
    + Cardinality({m \in DOMAIN L.nodes : L.nodes[m].next = n})

\* node a holds an owning (Rc) reference to node b: prev and next are both Rc
Owns(L, a, b) == L.nodes[a].next = b \/ L.nodes[a].prev = b

\* Rc::strong_count of node n, locals of a call in progress apart
StrongCount(L, n) == ListRefs(L, n) + CallerRefs(n)

\* DoubleLinkedList::new
new == [head |-> NULL, tail |-> NULL, length |-> 0, nodes |-> <<>>]

is_empty(L) == L.length = 0

list_length(L) == L.length

\* ---- NodeIter ----
\* A predicate closure is the set of values it accepts.
PredTrue == Values
PredEq(value) == {value}

\* traverse starting at the tail
traverse_fromTail(L, f) == [next |-> L.tail, f |-> f]

\* DoubleLinkedList::traverse : a NodeIter whose cursor is a clone of head
traverse(L, f) == [next |-> L.head, f |-> f]

\* NodeIter::next yielding the node under the cursor without testing it
RECURSIVE IterNext_noPred(_, _)
IterNext_noPred(ns, it) ==
    IF it.next = NULL
    THEN [item |-> NULL, it |-> it]
    ELSE [item |-> it.next, it |-> [it EXCEPT !.next = ns[it.next].next]]

\* NodeIter::next giving up at the first node its predicate rejects
IterNext_stopAtMiss(ns, it) ==
    IF it.next = NULL
    THEN [item |-> NULL, it |-> it]
    ELSE LET node == it.next
             it1 == [it EXCEPT !.next = ns[node].next]
         IN IF ns[node].value \in it.f
            THEN [item |-> node, it |-> it1]
            ELSE [item |-> NULL, it |-> it1]

\* NodeIter::next leaving the cursor on the node it yields
RECURSIVE IterNext_lateAdvance(_, _)
IterNext_lateAdvance(ns, it) ==
    IF it.next = NULL
    THEN [item |-> NULL, it |-> it]
    ELSE LET node == it.next
         IN IF ns[node].value \in it.f
            THEN [item |-> node, it |-> it]
            ELSE IterNext_lateAdvance(ns, [it EXCEPT !.next = ns[node].next])

\* NodeIter::next : item is the node yielded (NULL for None), next the cursor left
RECURSIVE IterNext(_, _)
IterNext(ns, it) ==
    IF it.next = NULL
    THEN [item |-> NULL, it |-> it]
    ELSE LET node == it.next
             it1 == [it EXCEPT !.next = ns[node].next]
         IN IF ns[node].value \in it.f
            THEN [item |-> node, it |-> it1]
            ELSE IterNext(ns, it1)

\* Iterator::for_each : the nodes an iterator yields until it is exhausted
RECURSIVE Exhaust(_, _)
Exhaust(ns, it) ==
    LET r == IterNext(ns, it)
    IN IF r.item = NULL THEN <<>> ELSE <<r.item>> \o Exhaust(ns, r.it)

\* nth discarding one item too many
RECURSIVE IterNth_offByOne(_, _, _)
IterNth_offByOne(ns, it, n) ==
    LET r == IterNext(ns, it)
    IN IF n = -1 \/ r.item = NULL THEN r ELSE IterNth_offByOne(ns, r.it, n - 1)

\* Iterator::nth : discard n items, yield the next one
RECURSIVE IterNth(_, _, _)
IterNth(ns, it, n) ==
    LET r == IterNext(ns, it)
    IN IF n = 0 \/ r.item = NULL THEN r ELSE IterNth(ns, r.it, n - 1)

\* ---- operations ----

\* add leaving tail alone when the list was empty
add_noTail(L, value) ==
    LET h == Alloc(L.nodes)
        ns0 == (h :> NodeNew(value)) @@ L.nodes
    IN IF L.head # NULL
       THEN LET old_head == L.head
                ns1 == [ns0 EXCEPT ![old_head].prev = h]
                ns2 == [ns1 EXCEPT ![h].next = old_head]
            IN [head |-> h, tail |-> L.tail, length |-> L.length + 1, nodes |-> ns2]
       ELSE [head |-> h, tail |-> L.tail, length |-> L.length + 1, nodes |-> ns0]

\* add never linking the new head to the old one
add_noNext(L, value) ==
    LET h == Alloc(L.nodes)
        ns0 == (h :> NodeNew(value)) @@ L.nodes
    IN IF L.head # NULL
       THEN LET old_head == L.head
                ns1 == [ns0 EXCEPT ![old_head].prev = h]
            IN [head |-> h, tail |-> L.tail, length |-> L.length + 1, nodes |-> ns1]
       ELSE [head |-> h, tail |-> h, length |-> L.length + 1, nodes |-> ns0]

add(L, value) ==
    LET h == Alloc(L.nodes)
        ns0 == (h :> NodeNew(value)) @@ L.nodes
    IN IF L.head # NULL
       THEN LET old_head == L.head
                ns1 == [ns0 EXCEPT ![old_head].prev = h]
                ns2 == [ns1 EXCEPT ![h].next = old_head]
            IN [head |-> h, tail |-> L.tail, length |-> L.length + 1, nodes |-> ns2]
       ELSE [head |-> h, tail |-> h, length |-> L.length + 1, nodes |-> ns0]

\* append never linking the old tail to the new one
append_noNext(L, value) ==
    LET t == Alloc(L.nodes)
        ns0 == (t :> NodeNew(value)) @@ L.nodes
    IN IF L.tail # NULL
       THEN LET old_tail == L.tail
                ns2 == [ns0 EXCEPT ![t].prev = old_tail]
            IN [head |-> L.head, tail |-> t, length |-> L.length + 1, nodes |-> ns2]
       ELSE [head |-> t, tail |-> t, length |-> L.length + 1, nodes |-> ns0]

append(L, value) ==
    LET t == Alloc(L.nodes)
        ns0 == (t :> NodeNew(value)) @@ L.nodes
    IN IF L.tail # NULL
       THEN LET old_tail == L.tail
                ns1 == [ns0 EXCEPT ![old_tail].next = t]
                ns2 == [ns1 EXCEPT ![t].prev = old_tail]
            IN [head |-> L.head, tail |-> t, length |-> L.length + 1, nodes |-> ns2]
       ELSE [head |-> t, tail |-> t, length |-> L.length + 1, nodes |-> ns0]

\* the middle branch never giving the located node its new prev
insertMiddle_noPrev(L, value, index) ==
    LET node == Alloc(L.nodes)
        r == IterNth(L.nodes, traverse(L, PredTrue), index)
    IN IF r.item = NULL
       THEN [list |-> L, panicked |-> TRUE]
       ELSE LET old_node == r.item
                ns0 == (node :> NodeNew(value)) @@ L.nodes
                old_node_prev == ns0[old_node].prev
                ns1 == [ns0 EXCEPT ![old_node].prev = NULL]
                ns2 == [ns1 EXCEPT ![node].next = old_node]
                ns3 == [ns2 EXCEPT ![node].prev = old_node_prev]
                ns5 == IF old_node_prev # NULL
                       THEN [ns3 EXCEPT ![old_node_prev].next = node]
                       ELSE ns3
            IN [list |-> [L EXCEPT !.nodes = ns5, !.length = L.length + 1],
                panicked |-> FALSE]

\* the middle branch locating the node one position early
insertMiddle_offByOne(L, value, index) ==
    LET node == Alloc(L.nodes)
        r == IterNth(L.nodes, traverse(L, PredTrue), index - 1)
    IN IF r.item = NULL
       THEN [list |-> L, panicked |-> TRUE]
       ELSE LET old_node == r.item
                ns0 == (node :> NodeNew(value)) @@ L.nodes
                old_node_prev == ns0[old_node].prev
                ns1 == [ns0 EXCEPT ![old_node].prev = NULL]
                ns2 == [ns1 EXCEPT ![node].next = old_node]
                ns3 == [ns2 EXCEPT ![node].prev = old_node_prev]
                ns4 == [ns3 EXCEPT ![old_node].prev = node]
                ns5 == IF old_node_prev # NULL
                       THEN [ns4 EXCEPT ![old_node_prev].next = node]
                       ELSE ns4
            IN [list |-> [L EXCEPT !.nodes = ns5, !.length = L.length + 1],
                panicked |-> FALSE]

\* the middle branch of insert: splice before the node at position index
insertMiddle(L, value, index) ==
    LET node == Alloc(L.nodes)
        r == IterNth(L.nodes, traverse(L, PredTrue), index)
    IN IF r.item = NULL
       THEN \* expect("index out of range") fails; the fresh node is dropped
            [list |-> L, panicked |-> TRUE]
       ELSE LET old_node == r.item
                ns0 == (node :> NodeNew(value)) @@ L.nodes
                old_node_prev == ns0[old_node].prev
                ns1 == [ns0 EXCEPT ![old_node].prev = NULL]
                ns2 == [ns1 EXCEPT ![node].next = old_node]
                ns3 == [ns2 EXCEPT ![node].prev = old_node_prev]
                ns4 == [ns3 EXCEPT ![old_node].prev = node]
                ns5 == IF old_node_prev # NULL
                       THEN [ns4 EXCEPT ![old_node_prev].next = node]
                       ELSE ns4
            IN [list |-> [L EXCEPT !.nodes = ns5, !.length = L.length + 1],
                panicked |-> FALSE]

\* insert sending index 0 to the back
insert_zeroAppend(L, value, index) ==
    IF index = 0
    THEN [list |-> append(L, value), panicked |-> FALSE]
    ELSE IF index >= L.length
         THEN [list |-> append(L, value), panicked |-> FALSE]
         ELSE insertMiddle(L, value, index)

\* insert clamping only indices strictly past the length
insert_gt(L, value, index) ==
    IF index = 0
    THEN [list |-> add(L, value), panicked |-> FALSE]
    ELSE IF index > L.length
         THEN [list |-> append(L, value), panicked |-> FALSE]
         ELSE insertMiddle(L, value, index)

insert(L, value, index) ==
    IF index = 0
    THEN [list |-> add(L, value), panicked |-> FALSE]
    ELSE IF index >= L.length
         THEN [list |-> append(L, value), panicked |-> FALSE]
         ELSE insertMiddle(L, value, index)

search(L, value) ==
    IterNext(L.nodes, traverse(L, PredEq(value))).item # NULL

\* remove's relinking of the neighbours and of head and tail, and its decrement
relinked(L, node) ==
    LET prev == L.nodes[node].prev
        next == L.nodes[node].next
        ns1 == IF prev # NULL THEN [L.nodes EXCEPT ![prev].next = next] ELSE L.nodes
        head1 == IF prev # NULL THEN L.head ELSE next
        ns2 == IF next # NULL THEN [ns1 EXCEPT ![next].prev = prev] ELSE ns1
        tail1 == IF next # NULL THEN L.tail ELSE prev
    IN [head |-> head1, tail |-> tail1, length |-> L.length - 1, nodes |-> ns2]

\* the strong count of node at Rc::try_unwrap: the local handle, the
\* references left in the list and with the caller, the iterator's cursor
reclaimCount(L, node, it) ==
    1 + StrongCount(relinked(L, node), node) + (IF it.next = node THEN 1 ELSE 0)

\* unlink leaving the prev of the following node alone
unlink_noNextPrev(L, node, it) ==
    LET prev == L.nodes[node].prev
        next == L.nodes[node].next
        ns1 == IF prev # NULL THEN [L.nodes EXCEPT ![prev].next = next] ELSE L.nodes
        head1 == IF prev # NULL THEN L.head ELSE next
        tail1 == IF next # NULL THEN L.tail ELSE prev
        L1 == [head |-> head1, tail |-> tail1, length |-> L.length - 1, nodes |-> ns1]
        strong == 1 + StrongCount(L1, node) + (IF it.next = node THEN 1 ELSE 0)
    IN IF strong = 1
       THEN [list |-> [L1 EXCEPT !.nodes = Free(ns1, node)],
             ret |-> <<ns1[node].value>>, panicked |-> FALSE]
       ELSE [list |-> L1, ret |-> <<>>, panicked |-> TRUE]

\* unlink keeping the length counter
unlink_noDec(L, node, it) ==
    LET prev == L.nodes[node].prev
        next == L.nodes[node].next
        ns1 == IF prev # NULL THEN [L.nodes EXCEPT ![prev].next = next] ELSE L.nodes
        head1 == IF prev # NULL THEN L.head ELSE next
        ns2 == IF next # NULL THEN [ns1 EXCEPT ![next].prev = prev] ELSE ns1
        tail1 == IF next # NULL THEN L.tail ELSE prev
        L1 == [head |-> head1, tail |-> tail1, length |-> L.length, nodes |-> ns2]
        strong == 1 + StrongCount(L1, node) + (IF it.next = node THEN 1 ELSE 0)
    IN IF strong = 1
       THEN [list |-> [L1 EXCEPT !.nodes = Free(ns2, node)],
             ret |-> <<ns2[node].value>>, panicked |-> FALSE]
       ELSE [list |-> L1, ret |-> <<>>, panicked |-> TRUE]

\* unlink leaving tail alone when the node had no next
unlink_noTail(L, node, it) ==
    LET prev == L.nodes[node].prev
        next == L.nodes[node].next
        ns1 == IF prev # NULL THEN [L.nodes EXCEPT ![prev].next = next] ELSE L.nodes
        head1 == IF prev # NULL THEN L.head ELSE next
        ns2 == IF next # NULL THEN [ns1 EXCEPT ![next].prev = prev] ELSE ns1
        L1 == [head |-> head1, tail |-> L.tail, length |-> L.length - 1, nodes |-> ns2]
        strong == 1 + StrongCount(L1, node) + (IF it.next = node THEN 1 ELSE 0)
    IN IF strong = 1
       THEN [list |-> [L1 EXCEPT !.nodes = Free(ns2, node)],
             ret |-> <<ns2[node].value>>, panicked |-> FALSE]
       ELSE [list |-> L1, ret |-> <<>>, panicked |-> TRUE]

\* unlink leaving head alone when the node had no prev
unlink_noHead(L, node, it) ==
    LET prev == L.nodes[node].prev
        next == L.nodes[node].next
        ns1 == IF prev # NULL THEN [L.nodes EXCEPT ![prev].next = next] ELSE L.nodes
        ns2 == IF next # NULL THEN [ns1 EXCEPT ![next].prev = prev] ELSE ns1
        tail1 == IF next # NULL THEN L.tail ELSE prev
        L1 == [head |-> L.head, tail |-> tail1, length |-> L.length - 1, nodes |-> ns2]
        strong == 1 + StrongCount(L1, node) + (IF it.next = node THEN 1 ELSE 0)
    IN IF strong = 1
       THEN [list |-> [L1 EXCEPT !.nodes = Free(ns2, node)],
             ret |-> <<ns2[node].value>>, panicked |-> FALSE]
       ELSE [list |-> L1, ret |-> <<>>, panicked |-> TRUE]

\* the body of remove once a node is found: unlink, decrement, reclaim.
\* it is remove's temporary iterator, still alive at the reclaim.
unlink(L, node, it) ==
    LET L1 == relinked(L, node)
    IN IF reclaimCount(L, node, it) = 1
       THEN [list |-> [L1 EXCEPT !.nodes = Free(L1.nodes, node)],
             ret |-> <<L1.nodes[node].value>>, panicked |-> FALSE]
       ELSE \* Rc::try_unwrap(node).ok().unwrap() fails after the unlinking
            [list |-> L1, ret |-> <<>>, panicked |-> TRUE]

\* the last match walking prev from a node, NULL when there is none
RECURSIVE LastMatch(_, _, _)
LastMatch(ns, cur, value) ==
    IF cur = NULL
    THEN NULL
    ELSE IF ns[cur].value = value THEN cur ELSE LastMatch(ns, ns[cur].prev, value)

\* remove searching from the tail
remove_fromTail(L, value) ==
    LET node == LastMatch(L.nodes, L.tail, value)
    IN IF node # NULL
       THEN unlink(L, node, [next |-> L.nodes[node].prev, f |-> PredEq(value)])
       ELSE [list |-> L, ret |-> <<>>, panicked |-> FALSE]

remove(L, value) ==
    LET r == IterNext(L.nodes, traverse(L, PredEq(value)))
    IN IF r.item # NULL
       THEN unlink(L, r.item, r.it)
       ELSE [list |-> L, ret |-> <<>>, panicked |-> FALSE]

\* ---- the state machine ----

CurList == [head |-> head, tail |-> tail, length |-> length, nodes |-> nodes]

Call(op, value, index, ret) ==
    [op |-> op, value |-> value, index |-> index, ret |-> ret, pre |-> CurList]

\* the calls so far, as long as they are all op
Built(op, v) ==
    IF built.by \in {"new", op}
    THEN [by |-> op, vals |-> Append(built.vals, v)]
    ELSE [by |-> "mixed", vals |-> <<>>]

Mixed == [by |-> "mixed", vals |-> <<>>]

SetList(L) ==
    /\ head' = L.head
    /\ tail' = L.tail
    /\ length' = L.length
    /\ nodes' = L.nodes

Init ==
    /\ head = new.head
    /\ tail = new.tail
    /\ length = new.length
    /\ nodes = new.nodes
    /\ panicked = FALSE
    /\ last = [op |-> "new", value |-> 0, index |-> 0, ret |-> <<>>, pre |-> new]
    /\ built = [by |-> "new", vals |-> <<>>]
    /\ iters = <<>>
    /\ handles = {}

DoAdd ==
    /\ ~panicked
    /\ length < MaxLen
    /\ \E v \in Values :
         /\ SetList(add(CurList, v))
         /\ last' = Call("add", v, 0, <<>>)
         /\ built' = Built("add", v)
    /\ UNCHANGED <<panicked, iters, handles>>

DoAppend ==
    /\ ~panicked
    /\ length < MaxLen
    /\ \E v \in Values :
         /\ SetList(append(CurList, v))
         /\ last' = Call("append", v, 0, <<>>)
         /\ built' = Built("append", v)
    /\ UNCHANGED <<panicked, iters, handles>>

DoInsert ==
    /\ ~panicked
    /\ length < MaxLen
    /\ \E v \in Values, i \in Indices :
         LET r == insert(CurList, v, i)
         IN /\ SetList(r.list)
            /\ panicked' = r.panicked
            /\ last' = Call("insert", v, i, <<>>)
    /\ built' = Mixed
    /\ UNCHANGED <<iters, handles>>

DoSearch ==
    /\ ~panicked
    /\ \E v \in Values :
         last' = Call("search", v, 0, <<search(CurList, v)>>)
    /\ UNCHANGED <<head, tail, length, nodes, panicked, built, iters, handles>>

DoRemove ==
    /\ ~panicked
    /\ \E v \in Values :
         LET r == remove(CurList, v)
         IN /\ SetList(r.list)
            /\ panicked' = r.panicked
            /\ last' = Call("remove", v, 0, r.ret)
    /\ built' = Mixed
    /\ UNCHANGED <<iters, handles>>

Next == DoAdd \/ DoAppend \/ DoInsert \/ DoSearch \/ DoRemove

Spec == Init /\ [][Next]_vars

\* ---- the caller keeping iterators and yielded nodes ----

\* let it = list.traverse(f)
DoTraverse ==
    /\ ~panicked
    /\ Len(iters) < MaxIters
    /\ \E f \in SUBSET Values :
         /\ iters' = Append(iters, traverse(CurList, f))
         /\ last' = Call("traverse", 0, Len(iters) + 1, <<>>)
    /\ UNCHANGED <<head, tail, length, nodes, panicked, built, handles>>

\* it.next() moving every kept iterator that stood on the same node
DoIterNext_shared ==
    /\ ~panicked
    /\ \E i \in DOMAIN iters : \E keep \in BOOLEAN :
         LET r == IterNext(nodes, iters[i])
         IN /\ iters' = [j \in DOMAIN iters |->
                           IF iters[j].next = iters[i].next
                           THEN [iters[j] EXCEPT !.next = r.it.next]
                           ELSE iters[j]]
            /\ keep => r.item # NULL /\ Cardinality(handles \cup {r.item}) <= MaxHandles
            /\ handles' = IF keep THEN handles \cup {r.item} ELSE handles
            /\ last' = Call("next", 0, i, IF r.item = NULL THEN <<>> ELSE <<r.item>>)
    /\ UNCHANGED <<head, tail, length, nodes, panicked, built>>

\* it.next(), the node yielded kept or dropped at once
DoIterNext ==
    /\ ~panicked
    /\ \E i \in DOMAIN iters : \E keep \in BOOLEAN :
         LET r == IterNext(nodes, iters[i])
         IN /\ iters' = [iters EXCEPT ![i] = r.it]
            /\ keep => r.item # NULL /\ Cardinality(handles \cup {r.item}) <= MaxHandles
            /\ handles' = IF keep THEN handles \cup {r.item} ELSE handles
            /\ last' = Call("next", 0, i, IF r.item = NULL THEN <<>> ELSE <<r.item>>)
    /\ UNCHANGED <<head, tail, length, nodes, panicked, built>>

\* drop(it)
DoDropIter ==
    /\ ~panicked
    /\ \E i \in DOMAIN iters :
         /\ iters' = SubSeq(iters, 1, i - 1) \o SubSeq(iters, i + 1, Len(iters))
         /\ last' = Call("drop_iter", 0, i, <<>>)
    /\ UNCHANGED <<head, tail, length, nodes, panicked, built, handles>>

\* drop(node)
DoDropHandle ==
    /\ ~panicked
    /\ \E n \in handles :
         /\ handles' = handles \ {n}
         /\ last' = Call("drop_node", 0, n, <<>>)
    /\ UNCHANGED <<head, tail, length, nodes, panicked, built, iters>>

DoIsEmpty ==
    /\ ~panicked
    /\ last' = Call("is_empty", 0, 0, <<is_empty(CurList)>>)
    /\ UNCHANGED <<head, tail, length, nodes, panicked, built, iters, handles>>

DoLength ==
    /\ ~panicked
    /\ last' = Call("length", 0, 0, <<list_length(CurList)>>)
    /\ UNCHANGED <<head, tail, length, nodes, panicked, built, iters, handles>>

\* the list grows to MaxLenH while the caller keeps iterators and nodes
NextH ==
    \/ length < MaxLenH /\ (DoAdd \/ DoAppend \/ DoInsert)
    \/ DoSearch \/ DoRemove
    \/ DoTraverse \/ DoIterNext \/ DoDropIter \/ DoDropHandle
    \/ DoIsEmpty \/ DoLength

SpecH == Init /\ [][NextH]_vars

\* ---- observations used by the properties ----

\* the nodes met following next from node cur, at most fuel of them
RECURSIVE Path(_, _, _)
Path(ns, cur, fuel) ==
    IF cur = NULL \/ cur \notin DOMAIN ns \/ fuel = 0
    THEN <<>>
    ELSE <<cur>> \o Path(ns, ns[cur].next, fuel - 1)

\* head-to-tail node sequence and value sequence of a list
NodeSeq(L) == Path(L.nodes, L.head, Cardinality(DOMAIN L.nodes) + 1)

ValueSeq(L) == [i \in 1..Len(NodeSeq(L)) |-> L.nodes[NodeSeq(L)[i]].value]

Distinct(s) == \A i, j \in 1..Len(s) : s[i] = s[j] => i = j

\* s with v placed at 0-based position index
InsertAt(s, index, v) == SubSeq(s, 1, index) \o <<v>> \o SubSeq(s, index + 1, Len(s))

\* s without its element at 1-based position k
DeleteAt(s, k) == SubSeq(s, 1, k - 1) \o SubSeq(s, k + 1, Len(s))

Occurrences(s, v) == {i \in 1..Len(s) : s[i] = v}

FirstOccurrence(s, v) == CHOOSE i \in Occurrences(s, v) : \A j \in Occurrences(s, v) : i <= j

RemoveCalled == last.op = "remove"

RemovePresent == RemoveCalled /\ Occurrences(ValueSeq(last.pre), last.value) # {}

RemoveAbsent == RemoveCalled /\ Occurrences(ValueSeq(last.pre), last.value) = {}

InsertMiddleCalled ==
    last.op = "insert" /\ 0 < last.index /\ last.index < last.pre.length

\* ---- properties ----

\* C1: following next from head visits exactly length distinct nodes, the last
\* one visited is the node tail refers to and its next is absent; the length
\* counter equals the number of nodes reachable from head (an empty walk goes
\* with an absent tail).
C1_WalkMatchesLength ==
    LET p == NodeSeq(CurList)
    IN /\ Len(p) = length
       /\ Distinct(p)
       /\ Cardinality({p[i] : i \in 1..Len(p)}) = length
       /\ IF Len(p) = 0
          THEN tail = NULL
          ELSE /\ p[Len(p)] = tail
               /\ nodes[p[Len(p)]].next = NULL

C1_Witness ==
    /\ RemovePresent
    /\ length >= 2
    /\ last.pre.head = head
    /\ last.pre.tail = tail
    /\ \E n \in DOMAIN last.pre.nodes :
         n \notin DOMAIN nodes /\ n # last.pre.head /\ n # last.pre.tail

\* C2: for all nodes A and B of the list, A.next is B exactly when B.prev is A;
\* the head's prev and the tail's next are absent.
C2_LinksSymmetric ==
    /\ \A a, b \in DOMAIN nodes : (nodes[a].next = b) <=> (nodes[b].prev = a)
    /\ head # NULL => head \in DOMAIN nodes /\ nodes[head].prev = NULL
    /\ tail # NULL => tail \in DOMAIN nodes /\ nodes[tail].next = NULL

C2_Witness ==
    /\ InsertMiddleCalled
    /\ length >= 3
    /\ \E n \in DOMAIN nodes \ DOMAIN last.pre.nodes :
         nodes[n].prev # NULL /\ nodes[n].next # NULL

\* C3: length is 0 exactly when head is absent, and exactly when tail is
\* absent; is_empty() is true exactly in those states.
C3_EmptyIffNoHeadNoTail ==
    /\ (length = 0) <=> (head = NULL)
    /\ (length = 0) <=> (tail = NULL)
    /\ is_empty(CurList) <=> (head = NULL /\ tail = NULL)

C3_Witness ==
    /\ RemoveCalled
    /\ last.pre.head # NULL
    /\ is_empty(CurList)

\* C4: insert(v, index) with 0 < index < n gives the old value sequence with
\* v placed at position index, and length n + 1.
C4_InsertMiddlePlacesAtIndex ==
    InsertMiddleCalled =>
        /\ ~panicked
        /\ ValueSeq(CurList) = InsertAt(ValueSeq(last.pre), last.index, last.value)
        /\ length = last.pre.length + 1
        /\ Len(ValueSeq(CurList)) = length

C4_Witness ==
    /\ InsertMiddleCalled
    /\ last.index >= 2
    /\ last.pre.length >= 3
    /\ ValueSeq(CurList)[last.index + 1] = last.value
    /\ ValueSeq(CurList)[last.index + 2] # last.value

\* C5: insert(v, 0) and add(v) applied to the same state give the same state,
\* the empty list included.
C5_InsertZeroIsAdd ==
    /\ \A v \in Values :
         insert(CurList, v, 0) = [list |-> add(CurList, v), panicked |-> FALSE]
    /\ (last.op = "insert" /\ last.index = 0) =>
         ~panicked /\ CurList = add(last.pre, last.value)

C5_Witness ==
    /\ last.op = "insert"
    /\ last.index = 0
    /\ last.pre.length >= 2
    /\ nodes[head].value = last.value

\* C6: insert(v, idx) with idx >= length() gives the same state as append(v)
\* and does not fail, idx = length() and the empty list included.
C6_InsertPastEndIsAppend ==
    /\ \A v \in Values : \A idx \in Indices :
         idx >= length =>
            insert(CurList, v, idx) = [list |-> append(CurList, v), panicked |-> FALSE]
    /\ (last.op = "insert" /\ last.index >= last.pre.length) =>
         ~panicked /\ CurList = append(last.pre, last.value)

C6_Witness ==
    /\ last.op = "insert"
    /\ last.index = last.pre.length
    /\ last.pre.length >= 2
    /\ nodes[tail].value = last.value

\* C7: remove(v) on a list containing v removes the first node, head to tail,
\* whose value is v, returns that value, and leaves the old value sequence
\* with that one occurrence deleted.
C7_RemoveFirstMatch ==
    RemovePresent =>
        LET k == FirstOccurrence(ValueSeq(last.pre), last.value)
        IN /\ ~panicked
           /\ last.ret = <<last.value>>
           /\ DOMAIN nodes = DOMAIN last.pre.nodes \ {NodeSeq(last.pre)[k]}
           /\ NodeSeq(CurList) = DeleteAt(NodeSeq(last.pre), k)
           /\ ValueSeq(CurList) = DeleteAt(ValueSeq(last.pre), k)

C7_Witness ==
    /\ RemovePresent
    /\ Cardinality(Occurrences(ValueSeq(last.pre), last.value)) >= 2
    /\ Occurrences(ValueSeq(CurList), last.value) # {}
    /\ nodes[head].value # last.value

\* C8: after remove(v) for a present v, length() is one less, and if v
\* occurred exactly once then search(v) is false.
C8_RemoveDecrementsAndUniqueGone ==
    RemovePresent =>
        /\ list_length(CurList) = list_length(last.pre) - 1
        /\ Cardinality(Occurrences(ValueSeq(last.pre), last.value)) = 1
             => ~search(CurList, last.value)

C8_Witness ==
    /\ RemovePresent
    /\ Cardinality(Occurrences(ValueSeq(last.pre), last.value)) = 1
    /\ last.pre.length >= 3
    /\ ~search(CurList, last.value)

\* C9: remove(v) on a list without v returns no value and leaves head, tail,
\* length and every node unchanged.
C9_RemoveAbsentUnchanged ==
    RemoveAbsent =>
        /\ ~panicked
        /\ last.ret = <<>>
        /\ CurList = last.pre
        /\ ValueSeq(CurList) = ValueSeq(last.pre)

C9_Witness ==
    /\ RemoveAbsent
    /\ length >= 2

\* C10: removing the only element of a one-element list leaves head and tail
\* absent and length 0, is_empty() true, and any remove made next returns no
\* value.
C10_RemoveSoleEmpties ==
    (RemovePresent /\ last.pre.length = 1) =>
        /\ head = NULL
        /\ tail = NULL
        /\ length = 0
        /\ is_empty(CurList)
        /\ nodes = <<>>
        /\ \A v \in Values :
             remove(CurList, v) = [list |-> CurList, ret |-> <<>>, panicked |-> FALSE]

C10_Witness ==
    /\ RemovePresent
    /\ last.pre.length = 1
    /\ last.ret = <<last.value>>
    /\ is_empty(CurList)

\* C11: every remove(v), also one made while the caller keeps a yielded node
\* or an iterator whose cursor is the node removed, either returns normally
\* with the list invariants holding or leaves head, tail, length and all
\* links as they were.
C11_RemoveAllOrNothing ==
    RemoveCalled =>
        \/ /\ ~panicked
           /\ C1_WalkMatchesLength
           /\ C2_LinksSymmetric
           /\ C3_EmptyIffNoHeadNoTail
        \/ CurList = last.pre

\* the nodes owned, directly or through others, by the nodes of set S
RECURSIVE OwnedFrom(_, _, _)
OwnedFrom(L, S, fuel) ==
    LET T == S \cup {b \in DOMAIN L.nodes : \E a \in S : Owns(L, a, b)}
    IN IF fuel = 0 \/ T = S THEN S ELSE OwnedFrom(L, T, fuel - 1)

OwnedBy(L, a) ==
    OwnedFrom(L, {b \in DOMAIN L.nodes : Owns(L, a, b)}, Cardinality(DOMAIN L.nodes))

\* C12: the owning references between nodes form no cycle: no node is owned,
\* directly or through other nodes, by itself.
C12_NoOwningCycle ==
    \A n \in DOMAIN nodes : n \notin OwnedBy(CurList, n)

\* the values a full traverse(|_| true) of list L yields, in order
TraversedValues(L) ==
    LET e == Exhaust(L.nodes, traverse(L, PredTrue))
    IN [i \in 1..Len(e) |-> L.nodes[e[i]].value]

Reverse(s) == [i \in 1..Len(s) |-> s[Len(s) + 1 - i]]

\* C13: from the empty list, after n append calls with values v1..vn, length()
\* is n and a full traversal yields v1, ..., vn in call order.
C13_AppendsInCallOrder ==
    built.by = "append" =>
        /\ list_length(CurList) = Len(built.vals)
        /\ TraversedValues(CurList) = built.vals
        /\ ValueSeq(CurList) = built.vals

C13_Witness ==
    /\ built.by = "append"
    /\ Len(built.vals) >= 3
    /\ built.vals[1] # built.vals[3]
    /\ TraversedValues(CurList)[3] = last.value

\* C14: from the empty list, after n add calls with values v1..vn, length() is
\* n and a full traversal yields vn, ..., v1; on a non-empty list add(v) makes
\* v the first element and tail still refers to the same last node.
C14_AddsInReverseOrder ==
    /\ built.by = "add" =>
        /\ list_length(CurList) = Len(built.vals)
        /\ TraversedValues(CurList) = Reverse(built.vals)
    /\ (last.op = "add" /\ last.pre.length > 0) =>
        /\ TraversedValues(CurList) = <<last.value>> \o ValueSeq(last.pre)
        /\ tail = last.pre.tail
        /\ nodes[tail].value = last.pre.nodes[tail].value
        /\ nodes[tail].next = NULL

C14_Witness ==
    /\ built.by = "add"
    /\ Len(built.vals) >= 3
    /\ built.vals[1] # built.vals[3]
    /\ nodes[head].value = built.vals[Len(built.vals)]
    /\ tail = last.pre.tail

\* C15: search(v) is true exactly when some node of the list holds v, and
\* false on the empty list.
C15_SearchIffPresent ==
    /\ \A v \in Values :
         search(CurList, v) <=> Occurrences(ValueSeq(CurList), v) # {}
    /\ is_empty(CurList) => \A v \in Values : ~search(CurList, v)
    /\ last.op = "search" =>
         last.ret = <<\E n \in DOMAIN nodes : nodes[n].value = last.value>>

C15_Witness ==
    /\ last.op = "search"
    /\ last.ret = <<TRUE>>
    /\ length >= 3
    /\ nodes[head].value # last.value
    /\ nodes[tail].value = last.value

\* the iterator left once it has yielded everything
RECURSIVE Drained(_, _)
Drained(ns, it) ==
    LET r == IterNext(ns, it)
    IN IF r.item = NULL THEN r.it ELSE Drained(ns, r.it)

\* C16: a traverse(p) iterator run to exhaustion yields exactly the nodes
\* satisfying p, each once, head to tail, at most length() of them, and then
\* reports exhaustion; every traverse starts from the current head however
\* far the iterators made earlier have advanced.
C16_TraverseYieldsMatching ==
    /\ \A p \in SUBSET Values :
         LET it0 == traverse(CurList, p)
             e == Exhaust(nodes, it0)
         IN /\ it0.next = head
            /\ e = SelectSeq(NodeSeq(CurList), LAMBDA n : nodes[n].value \in p)
            /\ Distinct(e)
            /\ Len(e) <= list_length(CurList)
            /\ IterNext(nodes, Drained(nodes, it0)).item = NULL
    /\ last.op = "traverse" => iters[last.index].next = head

C16_Witness ==
    /\ last.op = "traverse"
    /\ Len(iters) = 2
    /\ iters[1].next = tail
    /\ iters[2].next = head
    /\ length = 2
    /\ iters[2].f = {nodes[tail].value}
    /\ nodes[head].value # nodes[tail].value

\* C17: creating an iterator, advancing one, search, is_empty and length leave
\* head, tail, length and every node as they were, and advancing one iterator
\* leaves every other kept iterator where it was.
C17_ReadsLeaveListAlone ==
    [][last'.op \in {"traverse", "next", "search", "is_empty", "length"} =>
         /\ head' = head /\ tail' = tail /\ length' = length /\ nodes' = nodes
         /\ last'.op = "next" =>
              /\ DOMAIN iters' = DOMAIN iters
              /\ \A j \in DOMAIN iters \ {last'.index} : iters'[j] = iters[j]
         /\ last'.op = "traverse" => SubSeq(iters', 1, Len(iters)) = iters
         /\ last'.op \in {"search", "is_empty", "length"} => iters' = iters]_vars

C17_Witness ==
    /\ last.op = "next"
    /\ last.index = 1
    /\ last.ret = <<head>>
    /\ Len(iters) = 2
    /\ iters[2].next = head
    /\ iters[1].next = tail
    /\ length = 2

\* C18: when the caller keeps no yielded node and no iterator, at the point
\* remove reclaims the node it found (after the relinking, its own iterator
\* still alive) the node has exactly one strong reference, the local handle,
\* so the reclaim does not fail.
C18_ReclaimSoleOwner ==
    /\ \A v \in Values :
         LET r == IterNext(nodes, traverse(CurList, PredEq(v)))
         IN r.item # NULL =>
              /\ reclaimCount(CurList, r.item, r.it) = 1
              /\ ~remove(CurList, v).panicked
    /\ RemoveCalled => ~panicked

C18_Witness ==
    /\ RemovePresent
    /\ handles = {} /\ iters = <<>>
    /\ last.pre.length >= 3
    /\ last.pre.nodes[last.pre.tail].value = last.value
    /\ Cardinality(Occurrences(ValueSeq(last.pre), last.value)) = 1
    /\ last.ret = <<last.value>>
    /\ tail # last.pre.tail
    /\ last.pre.tail \notin DOMAIN nodes

\* C19: between calls, with nothing kept by the caller, every node has exactly
\* two strong references: head or the next of its predecessor, and tail or
\* the prev of its successor.
C19_TwoOwnersEach ==
    LET p == NodeSeq(CurList)
    IN /\ DOMAIN nodes = {p[i] : i \in 1..Len(p)}
       /\ \A i \in 1..Len(p) :
            /\ StrongCount(CurList, p[i]) = 2
            /\ IF i = 1
               THEN head = p[i] /\ \A m \in DOMAIN nodes : nodes[m].next # p[i]
               ELSE head # p[i] /\ nodes[p[i - 1]].next = p[i]
            /\ IF i = Len(p)
               THEN tail = p[i] /\ \A m \in DOMAIN nodes : nodes[m].prev # p[i]
               ELSE tail # p[i] /\ nodes[p[i + 1]].prev = p[i]

C19_Witness ==
    /\ RemovePresent
    /\ handles = {} /\ iters = <<>>
    /\ length >= 3
    /\ head # last.pre.head
    /\ \A n \in DOMAIN nodes : StrongCount(CurList, n) = 2

\* C20: whenever insert takes its middle branch the traversal finds the node
\* at position index, which has a predecessor; head and tail stay, and only
\* the new node, the located node's prev and the predecessor's next change.
C20_InsertMiddleLocal ==
    /\ \A idx \in 1..(length - 1) :
         LET r == IterNth(nodes, traverse(CurList, PredTrue), idx)
         IN /\ r.item # NULL
            /\ r.item = NodeSeq(CurList)[idx + 1]
            /\ nodes[r.item].prev # NULL
    /\ InsertMiddleCalled =>
         LET old_node == NodeSeq(last.pre)[last.index + 1]
             old_prev == last.pre.nodes[old_node].prev
         IN /\ ~panicked
            /\ old_prev # NULL
            /\ head = last.pre.head
            /\ tail = last.pre.tail
            /\ \A n \in DOMAIN last.pre.nodes \ {old_node, old_prev} :
                 nodes[n] = last.pre.nodes[n]
            /\ nodes[old_node] = [last.pre.nodes[old_node] EXCEPT !.prev = nodes[old_node].prev]
            /\ nodes[old_prev] = [last.pre.nodes[old_prev] EXCEPT !.next = nodes[old_prev].next]
            /\ Cardinality(DOMAIN nodes \ DOMAIN last.pre.nodes) = 1

C20_Witness ==
    /\ InsertMiddleCalled
    /\ ~panicked
    /\ last.pre.length >= 3
    /\ last.index = last.pre.length - 1
    /\ nodes[nodes[tail].prev].value = last.value
    /\ nodes[tail].prev \notin DOMAIN last.pre.nodes

====
